---- MODULE Spec2Model ----
(***************************************************************************)
(* A model of reaktplot: the embedded-Python lifecycle singleton of        *)
(* Plotly.cpp (PythonInit, getPythonModule, PlotlyModules, Plotly), the    *)
(* Pythonic-derived objects, and the Figure class of Figure.hpp/Figure.cpp *)
(* (the layout, xaxis and yaxis dictionaries, the backend figure `fig`,    *)
(* the setters and their aliases, the draw functions, show and save), the  *)
(* Scatter class of Scatter.hpp and the array helpers linspace and range   *)
(* of Array.hpp.                                                           *)
(*                                                                         *)
(* Python values are tagged records [t |-> type, v |-> payload]; a py::dict*)
(* is a function from its keys to such values.                             *)
(***************************************************************************)
EXTENDS Integers, Sequences, FiniteSets, TLC

VARIABLES
    py,            \* the process-wide interpreter state and the static `pyinit`
    ret,           \* the value returned by the last PlotlyModules / Plotly call
    created,       \* what held when each backend figure was created
    ctor,          \* the last Pythonic-derived object constructed
    fig,           \* Figure::fig, the backend (plotly) figure of the Figure object
    layout,        \* Figure::layout
    xaxis,         \* Figure::xaxis
    yaxis,         \* Figure::yaxis
    lastArg,       \* the argument of the last call of each setter (history)
    lastOp,        \* the last operation on the Figure object and its arguments
    backendCalls,  \* the calls the last operation made on `fig`, in order
    got,           \* the value returned by the last getter call
    ops,           \* the number of operations made on the Figure object
    called,        \* the function the program called last, with its arguments
    scatter        \* the Scatter objects of the program and the one it has named

vars == <<ops, py, ret, created, ctor, fig, layout, xaxis, yaxis, lastArg, lastOp, backendCalls, got, called,
          scatter>>

----------------------------------------------------------------------------
(* Bounds of the model *)

MaxCalls == 6      \* calls of PlotlyModules::ply/pio/pgo in one run
MaxOps == 4        \* operations on one Figure object
MaxTraces == 2     \* traces drawn on one figure
MaxAbs == 2        \* the endpoints given to linspace and range lie in -MaxAbs .. MaxAbs
MaxIntervals == 3  \* the largest number of intervals given to linspace
MaxScatterOps == 3 \* constructions of and calls on Scatter objects

(* Program constants *)

DEFAULT_FIGURE_HEIGHT == 500
DEFAULT_FIGURE_WIDTH == 800
DEFAULT_FIGURE_SCALE == 1

----------------------------------------------------------------------------
(* Python values as pybind11 casts them *)

PyStr(s)   == [t |-> "str", v |-> s]
PyFloat(x) == [t |-> "float", v |-> x]

\* pybind11's list caster: a std::vector<std::string> becomes a list of str,
\* element by element and in order
PyStrList(vec) == [t |-> "list", v |-> [i \in 1..Len(vec) |-> PyStr(vec[i])]]

\* the reverse cast of a Python list of str to std::vector<std::string>
CastStrings(obj) == [i \in 1..Len(obj.v) |-> obj.v[i].v]

\* an empty py::dict
EmptyDict == [k \in {} |-> PyStr("")]

\* d[k] = v on a py::dict: the key is added, or its value is replaced
SetItem(d, k, v) == [x \in (DOMAIN d) \cup {k} |-> IF x = k THEN v ELSE d[x]]

Update_drops_repeated(base, upd) ==
    [x \in ((DOMAIN base) \cup (DOMAIN upd))
            \ {k \in (DOMAIN base) \cap (DOMAIN upd) : base[k] = upd[k]} |->
        IF x \in DOMAIN upd THEN upd[x] ELSE base[x]]

\* dict.update: every entry of upd is written over base
Update(base, upd) == [x \in (DOMAIN base) \cup (DOMAIN upd) |-> IF x \in DOMAIN upd THEN upd[x] ELSE base[x]]

----------------------------------------------------------------------------
(* The interpreter lifecycle: Plotly.cpp *)

\* the names the three modules are bound to in the interpreter's globals
ModuleNames == {"ply4rkp", "pgo4rkp", "pio4rkp"}

\* plotly.colors.qualitative.T10
T10 == <<"#4C78A8", "#F58518", "#E45756", "#72B7B2", "#54A24B", "#EECA3B", "#B279A2", "#FF9DA6", "#9D755D", "#BAB0AC">>

\* the colorway of a figure that has no template colorway (plotly's own default)
PlotlyColorway == <<"#1f77b4", "#ff7f0e", "#2ca02c", "#d62728", "#9467bd", "#8c564b", "#e377c2", "#7f7f7f", "#bcbd22", "#d7becf">>

\* py::exec("import <module> as <alias>"): binds alias in the globals
exec_import(s, module, alias) ==
    [s EXCEPT !.globals = [n \in ModuleNames |-> IF n = alias THEN module ELSE @[n]]]

initscript_registers_only(s) ==
    [s EXCEPT !.templates = [n \in (DOMAIN @) \cup {"reaktplot"} |->
                                IF n = "reaktplot" THEN [colorway |-> T10] ELSE @[n]]]

initscript_other_palette(s) ==
    [s EXCEPT !.templates = [n \in (DOMAIN @) \cup {"reaktplot"} |->
                                IF n = "reaktplot" THEN [colorway |-> PlotlyColorway] ELSE @[n]],
              !.templatesDefault = "reaktplot"]

\* the init script: builds reaktplot_template with the colorway
\* ply4rkp.colors.qualitative.T10, registers it as pio4rkp.templates["reaktplot"]
\* and makes it pio4rkp.templates.default
initscript(s) ==
    [s EXCEPT !.templates = [n \in (DOMAIN @) \cup {"reaktplot"} |->
                                IF n = "reaktplot" THEN [colorway |-> T10] ELSE @[n]],
              !.templatesDefault = "reaktplot"]

PythonInit_always_guards(s) ==
    LET s0 == [s EXCEPT !.initialized = TRUE, !.guard = TRUE,
                        !.startedBy = IF s.initialized THEN @ ELSE "library"]
        s1 == exec_import(s0, "plotly", "ply4rkp")
        s2 == exec_import(s1, "plotly.graph_objects", "pgo4rkp")
        s3 == exec_import(s2, "plotly.io", "pio4rkp")
        s4 == initscript(s3)
    IN  [s4 EXCEPT !.initRuns = @ + 1, !.initAtCall = s.calls]

PythonInit_never_starts(s) ==
    LET s1 == exec_import(s, "plotly", "ply4rkp")
        s2 == exec_import(s1, "plotly.graph_objects", "pgo4rkp")
        s3 == exec_import(s2, "plotly.io", "pio4rkp")
        s4 == initscript(s3)
    IN  [s4 EXCEPT !.initRuns = @ + 1, !.initAtCall = s.calls]

\* PythonInit::PythonInit(); the imports and the init script are taken to
\* complete (plotly is installed), so the constructor does not throw
PythonInit(s) ==
    LET s0 == IF ~s.initialized
              THEN [s EXCEPT !.initialized = TRUE, !.startedBy = "library", !.guard = TRUE]
              ELSE s
        s1 == exec_import(s0, "plotly", "ply4rkp")
        s2 == exec_import(s1, "plotly.graph_objects", "pgo4rkp")
        s3 == exec_import(s2, "plotly.io", "pio4rkp")
        s4 == initscript(s3)
    IN  [s4 EXCEPT !.initRuns = @ + 1, !.initAtCall = s.calls]

getPythonModule_every_call(s, name) ==
    LET s1 == [PythonInit(s) EXCEPT !.pyinit = TRUE]
    IN  [state |-> s1, value |-> s1.globals[name]]

\* detail::getPythonModule(name): the function-local static `pyinit` is
\* constructed by the first call only
getPythonModule(s, name) ==
    LET s1 == IF s.pyinit THEN s ELSE [PythonInit(s) EXCEPT !.pyinit = TRUE]
    IN  [state |-> s1, value |-> s1.globals[name]]

pio_returns_pgo(s) == getPythonModule([s EXCEPT !.calls = @ + 1], "pgo4rkp")

\* PlotlyModules::ply(), pio(), pgo(); s.calls counts the calls made
ply(s) == getPythonModule([s EXCEPT !.calls = @ + 1], "ply4rkp")
pio(s) == getPythonModule([s EXCEPT !.calls = @ + 1], "pio4rkp")
pgo(s) == getPythonModule([s EXCEPT !.calls = @ + 1], "pgo4rkp")

\* the backend object pgo.<cls>() returns: a new figure takes the default
\* template of plotly.io at the moment it is created
NoKwargs == [k \in {} |-> 0]

NoRender == [by |-> "none", args |-> <<>>, kwargs |-> NoKwargs, layout |-> EmptyDict, xaxes |-> EmptyDict,
             yaxes |-> EmptyDict, data |-> <<>>]

NewObject(s, module, cls) ==
    [module |-> module, cls |-> cls,
     template |-> s.templatesDefault,
     layout |-> EmptyDict, xaxes |-> EmptyDict, yaxes |-> EmptyDict,
     data |-> <<>>, rendered |-> NoRender]

\* no backend object (before a Figure is constructed)
NoObject ==
    [module |-> "none", cls |-> "none", template |-> "none",
     layout |-> EmptyDict, xaxes |-> EmptyDict, yaxes |-> EmptyDict,
     data |-> <<>>, rendered |-> NoRender]

\* Plotly::Figure(), Layout(), Scatter(), Bar(): PlotlyModules::pgo().attr(cls)()
PlotlyObject(s, cls) ==
    LET r == pgo(s)
    IN  [state |-> r.state, value |-> NewObject(r.state, r.value, cls)]

Plotly_Figure(s)  == PlotlyObject(s, "Figure")
Plotly_Layout(s)  == PlotlyObject(s, "Layout")
Plotly_Scatter(s) == PlotlyObject(s, "Scatter")
Plotly_Bar(s)     == PlotlyObject(s, "Bar")

\* ~PythonInit() at static destruction: releasing a non-empty guard finalises
\* the interpreter; an empty guard leaves it alone
PythonInit_dtor(s) ==
    IF s.pyinit /\ s.guard
    THEN [s EXCEPT !.guard = FALSE, !.initialized = FALSE,
                   !.finalized = @ \cup {[startedBy |-> s.startedBy, by |-> "library"]}]
    ELSE s

\* Pythonic::Pythonic(): "Construct a default Pythonic object initializing the
\* Python interpreter once" (Pythonic.hpp); only the declaration is at hand, the
\* once-only initialisation is taken to be that of PlotlyModules
Pythonic(s) == ply(s).state

\* Figure::Figure(): the base Pythonic, then fig(Plotly::Figure()), then the
\* three empty dictionaries, in declaration order
Figure(s) ==
    LET s1 == Pythonic(s)
        r  == Plotly_Figure(s1)
    IN  [state |-> r.state, fig |-> r.value,
         membersOnInterpreter |-> r.state.initialized]

\* the constructors of the other Pythonic-derived classes: the base Pythonic,
\* then the Python member (Scatter::options, or the obj of a *Specs class)
PythonicDerived(s, cls) ==
    LET s1 == Pythonic(s)
    IN  [state |-> s1, membersOnInterpreter |-> s1.initialized]

OtherClasses == {"Scatter", "FontSpecs", "LineSpecs", "MarkerSpecs", "ContourSpecs"}

----------------------------------------------------------------------------
(* The process before any library call *)

Py0 ==
    [phase |-> "running", initialized |-> FALSE, startedBy |-> "none",
     guard |-> FALSE, pyinit |-> FALSE, initRuns |-> 0, initAtCall |-> 0, calls |-> 0,
     globals |-> [n \in ModuleNames |-> "unbound"],
     templates |-> [n \in {"plotly"} |-> [colorway |-> PlotlyColorway]],
     templatesDefault |-> "plotly",
     finalized |-> {}]

NoCtor == [cls |-> "none", first |-> "none", membersOnInterpreter |-> FALSE, count |-> 0]

SetterNames ==
    {"titleText", "legendTitleText", "colorway",
     "xaxisTitleText", "xaxisRange", "xaxisType",
     "yaxisTitleText", "yaxisRange", "yaxisType"}

NoOp == [op |-> "none", args |-> <<>>]

NoCall == [fn |-> "none", args |-> <<>>]

\* the program calls fn(args)
Calls(fn, args) == called' = [fn |-> fn, args |-> args]

\* no Scatter object yet
NoScatter == [objs |-> <<>>, self |-> 0, returned |-> 0]

FigureUnchanged ==
    UNCHANGED <<fig, layout, xaxis, yaxis, lastArg, lastOp, backendCalls, got, ops, called, scatter>>

Init ==
    /\ py = Py0
    /\ ret = [fn |-> "none", value |-> "none"]
    /\ created = {}
    /\ ctor = NoCtor
    /\ fig = NoObject
    /\ layout = EmptyDict
    /\ xaxis = EmptyDict
    /\ yaxis = EmptyDict
    /\ lastArg = [n \in SetterNames |-> <<>>]
    /\ lastOp = NoOp
    /\ backendCalls = <<>>
    /\ got = <<>>
    /\ ops = 0
    /\ called = NoCall
    /\ scatter = NoScatter

----------------------------------------------------------------------------
(* The lifecycle operations *)

\* what held when the backend figure f was created in state s
Creation(s, f) == [template |-> f.template, registered |-> f.template \in DOMAIN s.templates]

\* the host application (or the Python process that loaded the bindings)
\* has started an interpreter of its own
HostInitialize ==
    /\ py.phase = "running"
    /\ ~py.initialized
    /\ py' = [py EXCEPT !.initialized = TRUE, !.startedBy = "host"]
    /\ UNCHANGED <<ret, created, ctor>>
    /\ FigureUnchanged

CallModule(f) ==
    /\ py.phase = "running"
    /\ py.calls < MaxCalls
    /\ LET r == CASE f = "ply" -> ply(py)
                  [] f = "pio" -> pio(py)
                  [] f = "pgo" -> pgo(py)
       IN  /\ py' = r.state
           /\ ret' = [fn |-> f, value |-> r.value]
    /\ UNCHANGED <<created, ctor>>
    /\ FigureUnchanged

CallPlotly(c) ==
    /\ py.phase = "running"
    /\ py.calls < MaxCalls
    /\ LET r == CASE c = "Figure"  -> Plotly_Figure(py)
                  [] c = "Layout"  -> Plotly_Layout(py)
                  [] c = "Scatter" -> Plotly_Scatter(py)
                  [] c = "Bar"     -> Plotly_Bar(py)
       IN  /\ py' = r.state
           /\ ret' = [fn |-> c, value |-> r.value.module]
           /\ created' = IF c = "Figure" THEN created \cup {Creation(r.state, r.value)} ELSE created
    /\ UNCHANGED ctor
    /\ FigureUnchanged

\* `Figure fig;`
ConstructFigure ==
    /\ py.phase = "running"
    /\ py.calls + 2 <= MaxCalls
    /\ LET r == Figure(py)
       IN  /\ py' = r.state
           /\ fig' = r.fig
           /\ created' = created \cup {Creation(r.state, r.fig)}
           /\ ctor' = [cls |-> "Figure", first |-> IF py.calls = 0 THEN "Figure" ELSE ctor.first,
                       membersOnInterpreter |-> r.membersOnInterpreter,
                       count |-> ctor.count + 1]
    /\ layout' = EmptyDict
    /\ xaxis' = EmptyDict
    /\ yaxis' = EmptyDict
    /\ lastArg' = [n \in SetterNames |-> <<>>]
    /\ lastOp' = NoOp
    /\ backendCalls' = <<>>
    /\ got' = <<>>
    /\ ops' = 0
    /\ called' = NoCall
    /\ UNCHANGED <<ret, scatter>>

\* constructing a Scatter, FontSpecs, LineSpecs, MarkerSpecs or ContourSpecs
ConstructPythonic(cls) ==
    /\ py.phase = "running"
    /\ py.calls < MaxCalls
    /\ LET r == PythonicDerived(py, cls)
       IN  /\ py' = r.state
           /\ ctor' = [cls |-> cls, first |-> IF py.calls = 0 THEN cls ELSE ctor.first,
                       membersOnInterpreter |-> r.membersOnInterpreter,
                       count |-> ctor.count + 1]
    /\ UNCHANGED <<ret, created>>
    /\ FigureUnchanged

\* the program ends: the static `pyinit` is destroyed
Exit ==
    /\ py.phase = "running"
    /\ py' = [PythonInit_dtor(py) EXCEPT !.phase = "exited"]
    /\ UNCHANGED <<ret, created, ctor>>
    /\ FigureUnchanged

Next ==
    \/ HostInitialize
    \/ \E f \in {"ply", "pio", "pgo"} : CallModule(f)
    \/ \E c \in {"Figure", "Layout", "Scatter", "Bar"} : CallPlotly(c)
    \/ ConstructFigure
    \/ \E cls \in OtherClasses : ConstructPythonic(cls)
    \/ Exit

Spec == Init /\ [][Next]_vars

----------------------------------------------------------------------------
(* The backend figure: what the plotly calls made through fig.attr(...) do *)

Call(fn, args, kwargs) == [fn |-> fn, args |-> args, kwargs |-> kwargs]

\* one call on the backend figure f
attr(f, call) ==
    CASE call.fn = "update_layout" -> [f EXCEPT !.layout = Update(@, call.args[1])]
      [] call.fn = "update_xaxes"  -> [f EXCEPT !.xaxes = Update(@, call.args[1])]
      [] call.fn = "update_yaxes"  -> [f EXCEPT !.yaxes = Update(@, call.args[1])]
      [] call.fn = "add_trace"     -> [f EXCEPT !.data = Append(@, call.args[1])]
      [] call.fn \in {"show", "write_image"} ->
             [f EXCEPT !.rendered = [by |-> call.fn, args |-> call.args, kwargs |-> call.kwargs,
                                     layout |-> f.layout, xaxes |-> f.xaxes,
                                     yaxes |-> f.yaxes, data |-> f.data]]

\* the calls of one member function, made in order
RECURSIVE attrs(_, _)
attrs(f, calls) == IF calls = <<>> THEN f ELSE attrs(attr(f, Head(calls)), Tail(calls))

----------------------------------------------------------------------------
(* The Figure object: Figure.hpp, Figure.cpp *)

Titles == {"x", "y"}
ColorLists == {<<"black", "green">>, <<"green", "black">>, <<"black">>}
Bounds == {0, 1}
Names == {"u", "v"}
FileNames == {"fig.pdf"}

\* the optional arguments a caller of save gives: width, height, scale
GivenSizes == {<<>>, <<1024>>, <<1024, 768>>, <<1024, 768, 2>>}

\* createRange(l, r)
createRange(l, r) == [t |-> "list", v |-> <<PyFloat(l), PyFloat(r)>>]

\* an Array (std::valarray<double>) cast to Python
PyFloatList(a) == [t |-> "list", v |-> [i \in 1..Len(a) |-> PyFloat(a[i])]]

\* Scatter(x, y, name): the options dictionary of the new Scatter
Scatter(x, y, name) ==
    SetItem(SetItem(SetItem(EmptyDict, "x", PyFloatList(x)), "y", PyFloatList(y)), "name", PyStr(name))

\* The member functions of Scatter, on the option dictionary of the object;
\* each one returns *this, the object it was called on.
Scatter_x(options, values) == SetItem(options, "x", PyFloatList(values))

Scatter_y(options, values) == SetItem(options, "y", PyFloatList(values))

Scatter_name(options, value) == SetItem(options, "name", PyStr(value))

Scatter_mode_writes_name(options, value) == SetItem(options, "name", PyStr(value))

Scatter_mode(options, value) == SetItem(options, "mode", PyStr(value))

\* LineSpecs::dict(), MarkerSpecs::dict(): the dictionary of the attributes
\* set on the specs object
Specs_dict(value) == [t |-> "dict", v |-> value]

Scatter_line(options, value) == SetItem(options, "line", Specs_dict(value))

Scatter_marker(options, value) == SetItem(options, "marker", Specs_dict(value))

Scatter_dict(options) == options

\* the attributes a caller sets on a LineSpecs or MarkerSpecs object: none
\* (the default argument `= {}`) or a colour
LineSpecsValues == {EmptyDict, SetItem(EmptyDict, "color", PyStr("black"))}

MarkerSpecsValues == {EmptyDict, SetItem(EmptyDict, "color", PyStr("green"))}

\* the dictionary and the plotly key each setter writes
SetterKey ==
    [titleText       |-> [dict |-> "layout", key |-> "title_text"],
     legendTitleText |-> [dict |-> "layout", key |-> "legend_title_text"],
     colorway        |-> [dict |-> "layout", key |-> "colorway"],
     xaxisRange      |-> [dict |-> "xaxis",  key |-> "range"],
     xaxisTitleText  |-> [dict |-> "xaxis",  key |-> "title_text"],
     xaxisType       |-> [dict |-> "xaxis",  key |-> "type"],
     yaxisRange      |-> [dict |-> "yaxis",  key |-> "range"],
     yaxisTitleText  |-> [dict |-> "yaxis",  key |-> "title_text"],
     yaxisType       |-> [dict |-> "yaxis",  key |-> "type"]]

Ready ==
    /\ py.phase = "running"
    /\ fig.cls = "Figure"
    /\ ops < MaxOps

\* what every setter leaves alone
SetterFrame(name, args) ==
    /\ lastArg' = [lastArg EXCEPT ![name] = args]
    /\ lastOp' = [op |-> name, args |-> args]
    /\ backendCalls' = <<>>
    /\ ops' = ops + 1
    /\ UNCHANGED <<py, ret, created, ctor, fig, got, scatter>>

titleText_applies_at_once(value) ==
    /\ Ready
    /\ layout' = SetItem(layout, "title_text", PyStr(value))
    /\ fig' = attr(fig, Call("update_layout", <<layout'>>, NoKwargs))
    /\ lastArg' = [lastArg EXCEPT !["titleText"] = <<value>>]
    /\ lastOp' = [op |-> "titleText", args |-> <<value>>]
    /\ backendCalls' = <<>>
    /\ ops' = ops + 1
    /\ UNCHANGED <<py, ret, created, ctor, got, scatter, xaxis, yaxis>>

titleText(value) ==
    /\ Ready
    /\ layout' = SetItem(layout, "title_text", PyStr(value))
    /\ UNCHANGED <<xaxis, yaxis>>
    /\ SetterFrame("titleText", <<value>>)

colorway_wrong_key(value) ==
    /\ Ready
    /\ layout' = SetItem(layout, "piecolorway", PyStrList(value))
    /\ UNCHANGED <<xaxis, yaxis>>
    /\ SetterFrame("colorway", <<value>>)

colorway(value) ==
    /\ Ready
    /\ layout' = SetItem(layout, "colorway", PyStrList(value))
    /\ UNCHANGED <<xaxis, yaxis>>
    /\ SetterFrame("colorway", <<value>>)

xaxisRange(l, r) ==
    /\ Ready
    /\ xaxis' = SetItem(xaxis, "range", createRange(l, r))
    /\ UNCHANGED <<layout, yaxis>>
    /\ SetterFrame("xaxisRange", <<l, r>>)

xaxisTitleText_writes_yaxis(value) ==
    /\ Ready
    /\ yaxis' = SetItem(yaxis, "title_text", PyStr(value))
    /\ UNCHANGED <<layout, xaxis>>
    /\ SetterFrame("xaxisTitleText", <<value>>)

xaxisTitleText(value) ==
    /\ Ready
    /\ xaxis' = SetItem(xaxis, "title_text", PyStr(value))
    /\ UNCHANGED <<layout, yaxis>>
    /\ SetterFrame("xaxisTitleText", <<value>>)

yaxisRange_sets_both_axes(l, r) ==
    /\ Ready
    /\ yaxis' = SetItem(yaxis, "range", createRange(l, r))
    /\ xaxis' = SetItem(xaxis, "range", createRange(l, r))
    /\ UNCHANGED layout
    /\ SetterFrame("yaxisRange", <<l, r>>)

yaxisRange(l, r) ==
    /\ Ready
    /\ yaxis' = SetItem(yaxis, "range", createRange(l, r))
    /\ UNCHANGED <<layout, xaxis>>
    /\ SetterFrame("yaxisRange", <<l, r>>)

yaxisTitleText(value) ==
    /\ Ready
    /\ yaxis' = SetItem(yaxis, "title_text", PyStr(value))
    /\ UNCHANGED <<layout, xaxis>>
    /\ SetterFrame("yaxisTitleText", <<value>>)

legendTitleText(value) ==
    /\ Ready
    /\ layout' = SetItem(layout, "legend_title_text", PyStr(value))
    /\ UNCHANGED <<xaxis, yaxis>>
    /\ SetterFrame("legendTitleText", <<value>>)

xaxisType(value) ==
    /\ Ready
    /\ xaxis' = SetItem(xaxis, "type", PyStr(value))
    /\ UNCHANGED <<layout, yaxis>>
    /\ SetterFrame("xaxisType", <<value>>)

yaxisType(value) ==
    /\ Ready
    /\ yaxis' = SetItem(yaxis, "type", PyStr(value))
    /\ UNCHANGED <<layout, xaxis>>
    /\ SetterFrame("yaxisType", <<value>>)

\* The aliases of Figure.hpp: each one calls its target.  The title aliases
\* return `auto`, a copy of the Figure whose py::object members are handles
\* on the same Python objects as the original's.
title_calls_legendTitleText(value) == legendTitleText(value)

title(value) == titleText(value)

legendTitle(value) == legendTitleText(value)

xaxisTitle(value) == xaxisTitleText(value)

yaxisTitle(value) == yaxisTitleText(value)

xaxisScaleLinear == xaxisType("linear")

xaxisScaleLog == xaxisType("log")

xaxisTypeDate == xaxisType("date")

yaxisScaleLinear == yaxisType("linear")

yaxisScaleLog == yaxisType("log")

yaxisTypeDate == yaxisType("date")

draw_puts_trace_first(x, y, name) ==
    /\ Ready
    /\ Len(fig.data) < MaxTraces
    /\ LET r == PythonicDerived(py, "Scatter")
           calls == <<Call("add_trace", <<Scatter(x, y, name)>>, NoKwargs)>>
       IN  /\ py' = r.state
           /\ ctor' = [cls |-> "Scatter", first |-> ctor.first,
                       membersOnInterpreter |-> r.membersOnInterpreter,
                       count |-> ctor.count + 1]
           /\ fig' = [fig EXCEPT !.data = <<Scatter(x, y, name)>> \o @]
           /\ backendCalls' = calls
    /\ lastOp' = [op |-> "draw", args |-> <<x, y, name>>]
    /\ ops' = ops + 1
    /\ UNCHANGED <<ret, created, layout, xaxis, yaxis, lastArg, got, scatter>>

\* draw(Scatter(x, y, name)): the Scatter is constructed, then added as a trace
draw(x, y, name) ==
    /\ Ready
    /\ Len(fig.data) < MaxTraces
    /\ LET r == PythonicDerived(py, "Scatter")
           calls == <<Call("add_trace", <<Scatter(x, y, name)>>, NoKwargs)>>
       IN  /\ py' = r.state
           /\ ctor' = [cls |-> "Scatter", first |-> ctor.first,
                       membersOnInterpreter |-> r.membersOnInterpreter,
                       count |-> ctor.count + 1]
           /\ fig' = attrs(fig, calls)
           /\ backendCalls' = calls
    /\ lastOp' = [op |-> "draw", args |-> <<x, y, name>>]
    /\ ops' = ops + 1
    /\ UNCHANGED <<ret, created, layout, xaxis, yaxis, lastArg, got, scatter>>

\* the temporaries one draw call constructs (the specs objects, the Scatter),
\* then fig.attr("add_trace")(scatter.dict())
DrawTrace(classes, trace, op, args) ==
    /\ Ready
    /\ Len(fig.data) < MaxTraces
    /\ LET s1 == IF Len(classes) > 1 THEN PythonicDerived(py, classes[1]).state ELSE py
           s2 == IF Len(classes) > 2 THEN PythonicDerived(s1, classes[2]).state ELSE s1
           r  == PythonicDerived(s2, classes[Len(classes)])
           calls == <<Call("add_trace", <<Scatter_dict(trace)>>, NoKwargs)>>
       IN  /\ py' = r.state
           /\ ctor' = [cls |-> classes[Len(classes)], first |-> ctor.first,
                       membersOnInterpreter |-> r.membersOnInterpreter,
                       count |-> ctor.count + Len(classes)]
           /\ fig' = attrs(fig, calls)
           /\ backendCalls' = calls
    /\ lastOp' = [op |-> op, args |-> args]
    /\ ops' = ops + 1
    /\ UNCHANGED <<ret, created, layout, xaxis, yaxis, lastArg, got, scatter>>

drawLine_sets_mode(x, y, name, line) ==
    DrawTrace(<<"LineSpecs", "Scatter">>,
              Scatter_line(Scatter_mode(Scatter(x, y, name), "lines"), line),
              "drawLine", <<x, y, name, line>>)

drawLine(x, y, name, line) ==
    DrawTrace(<<"LineSpecs", "Scatter">>,
              Scatter_line(Scatter(x, y, name), line),
              "drawLine", <<x, y, name, line>>)

drawLineWithMarkers(x, y, name, line, marker) ==
    DrawTrace(<<"LineSpecs", "MarkerSpecs", "Scatter">>,
              Scatter_marker(Scatter_line(Scatter_mode(Scatter(x, y, name), "lines+markers"), line), marker),
              "drawLineWithMarkers", <<x, y, name, line, marker>>)

drawMarkers(x, y, name, marker) ==
    DrawTrace(<<"MarkerSpecs", "Scatter">>,
              Scatter_marker(Scatter_mode(Scatter(x, y, name), "markers"), marker),
              "drawMarkers", <<x, y, name, marker>>)

show_clears_layout ==
    /\ Ready
    /\ LET calls == << Call("update_layout", <<layout>>, NoKwargs),
                       Call("update_xaxes", <<xaxis>>, NoKwargs),
                       Call("update_yaxes", <<yaxis>>, NoKwargs),
                       Call("show", <<>>, NoKwargs) >>
       IN  /\ fig' = attrs(fig, calls)
           /\ backendCalls' = calls
    /\ layout' = EmptyDict
    /\ lastOp' = [op |-> "show", args |-> <<>>]
    /\ ops' = ops + 1
    /\ UNCHANGED <<py, ret, created, ctor, xaxis, yaxis, lastArg, got, scatter>>

show_renders_first ==
    /\ Ready
    /\ LET calls == << Call("show", <<>>, NoKwargs),
                       Call("update_layout", <<layout>>, NoKwargs),
                       Call("update_xaxes", <<xaxis>>, NoKwargs),
                       Call("update_yaxes", <<yaxis>>, NoKwargs) >>
       IN  /\ fig' = attrs(fig, calls)
           /\ backendCalls' = calls
    /\ lastOp' = [op |-> "show", args |-> <<>>]
    /\ ops' = ops + 1
    /\ UNCHANGED <<py, ret, created, ctor, layout, xaxis, yaxis, lastArg, got, scatter>>

show ==
    /\ Ready
    /\ LET calls == << Call("update_layout", <<layout>>, NoKwargs),
                       Call("update_xaxes", <<xaxis>>, NoKwargs),
                       Call("update_yaxes", <<yaxis>>, NoKwargs),
                       Call("show", <<>>, NoKwargs) >>
       IN  /\ fig' = attrs(fig, calls)
           /\ backendCalls' = calls
    /\ lastOp' = [op |-> "show", args |-> <<>>]
    /\ ops' = ops + 1
    /\ UNCHANGED <<py, ret, created, ctor, layout, xaxis, yaxis, lastArg, got, scatter>>

save_swaps_size(filename, width, height, scale) ==
    LET calls == << Call("update_layout", <<layout>>, NoKwargs),
                    Call("update_xaxes", <<xaxis>>, NoKwargs),
                    Call("update_yaxes", <<yaxis>>, NoKwargs),
                    Call("write_image", <<filename>>,
                         [width |-> height, height |-> width, scale |-> scale]) >>
    IN  /\ fig' = attrs(fig, calls)
        /\ backendCalls' = calls

\* Figure::save(filename, width, height, scale)
save(filename, width, height, scale) ==
    LET calls == << Call("update_layout", <<layout>>, NoKwargs),
                    Call("update_xaxes", <<xaxis>>, NoKwargs),
                    Call("update_yaxes", <<yaxis>>, NoKwargs),
                    Call("write_image", <<filename>>,
                         [width |-> width, height |-> height, scale |-> scale]) >>
    IN  /\ fig' = attrs(fig, calls)
        /\ backendCalls' = calls

\* a call fig.save(file, ...): the arguments the caller leaves out take the
\* defaults of the declaration
SaveCall(file, given) ==
    /\ Ready
    /\ save(file,
            IF Len(given) >= 1 THEN given[1] ELSE DEFAULT_FIGURE_WIDTH,
            IF Len(given) >= 2 THEN given[2] ELSE DEFAULT_FIGURE_HEIGHT,
            IF Len(given) >= 3 THEN given[3] ELSE DEFAULT_FIGURE_SCALE)
    /\ lastOp' = [op |-> "save", args |-> <<file, given>>]
    /\ ops' = ops + 1
    /\ UNCHANGED <<py, ret, created, ctor, layout, xaxis, yaxis, lastArg, got, scatter>>

\* fig.colorway() without argument: the colorway in effect for the figure,
\* the one set on the Figure if any, else that of the figure's template
colorway_get ==
    /\ Ready
    /\ got' = CastStrings(IF "colorway" \in DOMAIN layout
                          THEN layout["colorway"]
                          ELSE PyStrList(py.templates[fig.template].colorway))
    /\ lastOp' = [op |-> "colorway()", args |-> <<>>]
    /\ backendCalls' = <<>>
    /\ ops' = ops + 1
    /\ UNCHANGED <<py, ret, created, ctor, fig, layout, xaxis, yaxis, lastArg, scatter>>

\* the program right after `Figure fig;` as its first library operation, in a
\* process whose host has or has not started an interpreter before
InitFigure ==
    \E host \in BOOLEAN :
        LET s0 == IF host THEN [Py0 EXCEPT !.initialized = TRUE, !.startedBy = "host"] ELSE Py0
            r  == Figure(s0)
        IN  /\ py = r.state
            /\ ret = [fn |-> "none", value |-> "none"]
            /\ created = {Creation(r.state, r.fig)}
            /\ ctor = [cls |-> "Figure", first |-> "Figure",
                       membersOnInterpreter |-> r.membersOnInterpreter, count |-> 1]
            /\ fig = r.fig
            /\ layout = EmptyDict
            /\ xaxis = EmptyDict
            /\ yaxis = EmptyDict
            /\ lastArg = [n \in SetterNames |-> <<>>]
            /\ lastOp = NoOp
            /\ backendCalls = <<>>
            /\ got = <<>>
            /\ ops = 0
            /\ called = NoCall
            /\ scatter = NoScatter

NextFigure ==
    \/ \E value \in Titles : titleText(value) /\ Calls("titleText", <<value>>)
    \/ \E value \in ColorLists : colorway(value) /\ Calls("colorway", <<value>>)
    \/ \E l \in Bounds, r \in Bounds : xaxisRange(l, r) /\ Calls("xaxisRange", <<l, r>>)
    \/ \E value \in Titles : xaxisTitleText(value) /\ Calls("xaxisTitleText", <<value>>)
    \/ \E l \in Bounds, r \in Bounds : yaxisRange(l, r) /\ Calls("yaxisRange", <<l, r>>)
    \/ \E value \in Titles : yaxisTitleText(value) /\ Calls("yaxisTitleText", <<value>>)
    \/ \E name \in Names : draw(<<0, 1>>, <<0, 1>>, name) /\ Calls("draw", <<<<0, 1>>, <<0, 1>>, name>>)
    \/ show /\ Calls("show", <<>>)
    \/ \E file \in FileNames, given \in GivenSizes : SaveCall(file, given) /\ Calls("save", <<file, given>>)
    \/ colorway_get /\ Calls("colorway()", <<>>)

SpecFigure == InitFigure /\ [][NextFigure]_vars

\* the values the test and the examples give to the type setters
AxisTypes == {"linear", "log", "date"}

\* a program that calls the aliases and their targets on one Figure
NextAlias ==
    \/ \E value \in Titles : titleText(value) /\ Calls("titleText", <<value>>)
    \/ \E value \in Titles : legendTitleText(value) /\ Calls("legendTitleText", <<value>>)
    \/ \E value \in Titles : xaxisTitleText(value) /\ Calls("xaxisTitleText", <<value>>)
    \/ \E value \in Titles : yaxisTitleText(value) /\ Calls("yaxisTitleText", <<value>>)
    \/ \E value \in AxisTypes : xaxisType(value) /\ Calls("xaxisType", <<value>>)
    \/ \E value \in AxisTypes : yaxisType(value) /\ Calls("yaxisType", <<value>>)
    \/ \E value \in Titles : title(value) /\ Calls("title", <<value>>)
    \/ \E value \in Titles : legendTitle(value) /\ Calls("legendTitle", <<value>>)
    \/ \E value \in Titles : xaxisTitle(value) /\ Calls("xaxisTitle", <<value>>)
    \/ \E value \in Titles : yaxisTitle(value) /\ Calls("yaxisTitle", <<value>>)
    \/ xaxisScaleLinear /\ Calls("xaxisScaleLinear", <<>>)
    \/ xaxisScaleLog /\ Calls("xaxisScaleLog", <<>>)
    \/ xaxisTypeDate /\ Calls("xaxisTypeDate", <<>>)
    \/ yaxisScaleLinear /\ Calls("yaxisScaleLinear", <<>>)
    \/ yaxisScaleLog /\ Calls("yaxisScaleLog", <<>>)
    \/ yaxisTypeDate /\ Calls("yaxisTypeDate", <<>>)
    \/ show /\ Calls("show", <<>>)

SpecAlias == InitFigure /\ [][NextAlias]_vars

\* a program that draws traces of the four kinds, sets a title, and renders
NextDraw ==
    \/ \E name \in Names : draw(<<0, 1>>, <<0, 1>>, name) /\ Calls("draw", <<<<0, 1>>, <<0, 1>>, name>>)
    \/ \E name \in Names, line \in LineSpecsValues :
          /\ drawLine(<<0, 1>>, <<0, 1>>, name, line)
          /\ Calls("drawLine", <<<<0, 1>>, <<0, 1>>, name, line>>)
    \/ \E name \in Names, line \in LineSpecsValues, marker \in MarkerSpecsValues :
          /\ drawLineWithMarkers(<<0, 1>>, <<0, 1>>, name, line, marker)
          /\ Calls("drawLineWithMarkers", <<<<0, 1>>, <<0, 1>>, name, line, marker>>)
    \/ \E name \in Names, marker \in MarkerSpecsValues :
          /\ drawMarkers(<<0, 1>>, <<0, 1>>, name, marker)
          /\ Calls("drawMarkers", <<<<0, 1>>, <<0, 1>>, name, marker>>)
    \/ \E value \in Titles : xaxisTitle(value) /\ Calls("xaxisTitle", <<value>>)
    \/ show /\ Calls("show", <<>>)
    \/ \E file \in FileNames : SaveCall(file, <<>>) /\ Calls("save", <<file, <<>> >>)

SpecDraw == InitFigure /\ [][NextDraw]_vars

\* The Scatter objects of a program: `objs` holds the option dictionary of
\* each object, `self` is the one the program has named.  A member function
\* is called on an object and returns a reference to an object.
ScatterMethods == {"x", "y", "name", "mode", "line", "marker"}

XValues == {<<0, 1>>, <<1, 0>>}

Modes == {"lines+markers", "markers"}

ScatterArgs(m) ==
    CASE m \in {"x", "y"} -> XValues
      [] m = "name"       -> Names
      [] m = "mode"       -> Modes
      [] m = "line"       -> LineSpecsValues
      [] m = "marker"     -> MarkerSpecsValues

\* objs[id].m(arg): the dictionary is updated in place, *this is returned
Scatter_method(objs, id, m, arg) ==
    [objs |-> [objs EXCEPT ![id] =
                  CASE m = "x"      -> Scatter_x(@, arg)
                    [] m = "y"      -> Scatter_y(@, arg)
                    [] m = "name"   -> Scatter_name(@, arg)
                    [] m = "mode"   -> Scatter_mode(@, arg)
                    [] m = "line"   -> Scatter_line(@, arg)
                    [] m = "marker" -> Scatter_marker(@, arg)],
     ref  |-> id]

\* `Scatter s;` or `Scatter s(x, y, name);`
ConstructScatter(options, fn, args) ==
    /\ py.phase = "running"
    /\ ops < MaxScatterOps
    /\ LET r == PythonicDerived(py, "Scatter")
       IN  /\ py' = r.state
           /\ ctor' = [cls |-> "Scatter", first |-> IF py.calls = 0 THEN "Scatter" ELSE ctor.first,
                       membersOnInterpreter |-> r.membersOnInterpreter,
                       count |-> ctor.count + 1]
    /\ scatter' = [objs |-> <<options>>, self |-> 1, returned |-> 0]
    /\ called' = [fn |-> fn, args |-> args]
    /\ ops' = ops + 1
    /\ UNCHANGED <<ret, created, fig, layout, xaxis, yaxis, lastArg, lastOp, backendCalls, got>>

\* s.m(arg)
CallMethod(m, arg) ==
    /\ scatter.self # 0
    /\ ops < MaxScatterOps
    /\ LET r == Scatter_method(scatter.objs, scatter.self, m, arg)
       IN  scatter' = [scatter EXCEPT !.objs = r.objs, !.returned = r.ref]
    /\ called' = [fn |-> m, args |-> <<arg>>]
    /\ ops' = ops + 1
    /\ UNCHANGED <<py, ret, created, ctor, fig, layout, xaxis, yaxis, lastArg, lastOp, backendCalls, got>>

\* s.m1(a1).m2(a2): the second call is made on the object the first returns
CallChain(m1, a1, m2, a2) ==
    /\ scatter.self # 0
    /\ ops < MaxScatterOps
    /\ LET r1 == Scatter_method(scatter.objs, scatter.self, m1, a1)
           r2 == Scatter_method(r1.objs, r1.ref, m2, a2)
       IN  scatter' = [scatter EXCEPT !.objs = r2.objs, !.returned = r2.ref]
    /\ called' = [fn |-> "chain", args |-> <<m1, a1, m2, a2>>]
    /\ ops' = ops + 1
    /\ UNCHANGED <<py, ret, created, ctor, fig, layout, xaxis, yaxis, lastArg, lastOp, backendCalls, got>>

NextScatter ==
    \/ ConstructScatter(EmptyDict, "Scatter()", <<>>)
    \/ \E x \in XValues, y \in XValues, name \in Names :
          ConstructScatter(Scatter(x, y, name), "Scatter(x, y, name)", <<x, y, name>>)
    \/ \E m \in ScatterMethods : \E arg \in ScatterArgs(m) : CallMethod(m, arg)
    \/ \E m1 \in ScatterMethods, m2 \in ScatterMethods :
          \E a1 \in ScatterArgs(m1), a2 \in ScatterArgs(m2) : CallChain(m1, a1, m2, a2)

SpecScatter == Init /\ [][NextScatter]_vars

----------------------------------------------------------------------------
(* The claims on the interpreter lifecycle *)

\* C1: over any sequence of calls of PlotlyModules::ply/pio/pgo and
\* Plotly::Figure/Layout/Scatter/Bar, the Python initialisation has run
\* exactly once as soon as one such call was made, it ran during the first of
\* them, and it has not run while no such call was made.
C1_InitialisedExactlyOnce ==
    /\ py.calls = 0 => py.initRuns = 0 /\ ~py.pyinit
    /\ py.calls >= 1 => py.initRuns = 1 /\ py.initAtCall = 1 /\ py.pyinit

C1_Witness == py.calls >= 3 /\ py.initRuns = 1 /\ ret.fn = "Bar"

\* C2: the step in which the initialisation runs starts an interpreter, owned
\* by the guard, if and only if none was initialised before; a running one is
\* reused with the guard left empty; and the library never finalises an
\* interpreter that it did not start.
C2_GuardOnlyForOwnInterpreter ==
    [][ /\ py'.initRuns # py.initRuns =>
              /\ py'.initialized
              /\ py'.guard <=> ~py.initialized
              /\ py'.guard <=> (py'.startedBy = "library")
              /\ py.initialized => py'.startedBy = py.startedBy
        /\ \A e \in py'.finalized : e.by = "library" => e.startedBy = "library"
      ]_vars

C2_Witness ==
    /\ py.phase = "exited"
    /\ py.startedBy = "host"
    /\ py.initRuns = 1
    /\ ~py.guard
    /\ py.initialized
    /\ py.finalized = {}

\* C3: ply() returns the module imported as plotly, pio() plotly.io and pgo()
\* plotly.graph_objects, on the first call and on every later one, whichever
\* of the three is called first.
C3_ModulesByName ==
    /\ ret.fn = "ply" => ret.value = "plotly"
    /\ ret.fn = "pio" => ret.value = "plotly.io"
    /\ ret.fn = "pgo" => ret.value = "plotly.graph_objects"

C3_Witness == ret.fn = "pio" /\ ret.value = "plotly.io" /\ py.calls = 1

\* C4: every Pythonic-derived object, also one constructed as the first
\* library operation of the program, has its Python members created on an
\* initialised interpreter, and constructing further objects does not run the
\* initialisation again.
C4_InterpreterBeforeMembers ==
    ctor.count >= 1 => ctor.membersOnInterpreter /\ py.initRuns = 1

C4_Witness ==
    /\ ctor.first = "Scatter"
    /\ ctor.count >= 2
    /\ ctor.cls = "Figure"
    /\ py.startedBy = "library"
    /\ ctor.membersOnInterpreter

\* C5: every backend figure is created when the reaktplot template is
\* registered and is the default template, and once it is the default no
\* library operation changes the default.
C5_TemplateBeforeFigures ==
    /\ [](\A c \in created : c.template = "reaktplot" /\ c.registered)
    /\ [][py.templatesDefault = "reaktplot" => py'.templatesDefault = "reaktplot"]_vars

C5_Witness ==
    /\ created # {}
    /\ ctor.first = "Figure"
    /\ ctor.count = 1
    /\ fig.template = "reaktplot"

----------------------------------------------------------------------------
(* The claims on the Figure object *)

InEffect(d, applied) == \A k \in DOMAIN d : k \in DOMAIN applied /\ applied[k] = d[k]

\* C8: show() and save() call update_layout(layout), update_xaxes(xaxis),
\* update_yaxes(yaxis) and then show / write_image, in this order, so that
\* what is rendered carries every layout and axis setting made before and
\* every trace drawn before.
C8_ForwardThenRender ==
    lastOp.op \in {"show", "save"} =>
        /\ Len(backendCalls) = 4
        /\ backendCalls[1] = Call("update_layout", <<layout>>, NoKwargs)
        /\ backendCalls[2] = Call("update_xaxes", <<xaxis>>, NoKwargs)
        /\ backendCalls[3] = Call("update_yaxes", <<yaxis>>, NoKwargs)
        /\ backendCalls[4].fn = (IF lastOp.op = "show" THEN "show" ELSE "write_image")
        /\ fig.rendered.by = backendCalls[4].fn
        /\ InEffect(layout, fig.rendered.layout)
        /\ InEffect(xaxis, fig.rendered.xaxes)
        /\ InEffect(yaxis, fig.rendered.yaxes)
        /\ fig.rendered.data = fig.data

C8_Witness ==
    /\ lastOp.op = "show"
    /\ DOMAIN layout # {}
    /\ DOMAIN xaxis # {}
    /\ Len(fig.data) = 1
    /\ InEffect(xaxis, fig.rendered.xaxes)

\* C9: save(file) calls write_image with the file name and width 800, height
\* 500 and scale 1.0; a width, height or scale the caller gives is passed
\* unchanged under its own keyword.
C9_SaveArguments ==
    lastOp.op = "save" =>
        LET file  == lastOp.args[1]
            given == lastOp.args[2]
            c     == backendCalls[Len(backendCalls)]
        IN  /\ c.fn = "write_image"
            /\ c.args = <<file>>
            /\ DOMAIN c.kwargs = {"width", "height", "scale"}
            /\ c.kwargs["width"]  = (IF Len(given) >= 1 THEN given[1] ELSE 800)
            /\ c.kwargs["height"] = (IF Len(given) >= 2 THEN given[2] ELSE 500)
            /\ c.kwargs["scale"]  = (IF Len(given) >= 3 THEN given[3] ELSE 1)

C9_Witness ==
    /\ lastOp.op = "save"
    /\ lastOp.args = <<"fig.pdf", <<>> >>
    /\ fig.rendered.kwargs = [width |-> 800, height |-> 500, scale |-> 1]

\* the dictionary of the Figure with the given name
Dict(name) == CASE name = "layout" -> layout [] name = "xaxis" -> xaxis [] name = "yaxis" -> yaxis

\* the Python value a setter stores for the arguments of a call
Stored(n, args) ==
    CASE n \in {"titleText", "legendTitleText", "xaxisTitleText", "xaxisType",
                "yaxisTitleText", "yaxisType"} -> PyStr(args[1])
      [] n = "colorway" -> PyStrList(args[1])
      [] n \in {"xaxisRange", "yaxisRange"} -> [t |-> "list", v |-> <<PyFloat(args[1]), PyFloat(args[2])>>]

\* C10: each dictionary holds exactly one entry per distinct key that was
\* set, under the setter's fixed key, and its value is that of the last call
\* of the setter (last write wins).
C10_LastWriteWins ==
    /\ \A n \in SetterNames :
          LET d == Dict(SetterKey[n].dict)
              k == SetterKey[n].key
          IN  /\ k \in DOMAIN d <=> lastArg[n] # <<>>
              /\ lastArg[n] # <<>> => d[k] = Stored(n, lastArg[n])
    /\ \A dn \in {"layout", "xaxis", "yaxis"} :
          Cardinality(DOMAIN Dict(dn)) =
              Cardinality({n \in SetterNames : SetterKey[n].dict = dn /\ lastArg[n] # <<>>})

C10_Witness ==
    /\ ops = 3
    /\ lastOp.op = "xaxisTitleText"
    /\ xaxis = SetItem(EmptyDict, "title_text", PyStr("y"))
    /\ layout = EmptyDict
    /\ yaxis = EmptyDict
    /\ fig.data = <<>>
    /\ fig.rendered.by = "none"
    /\ got = <<>>

\* the step the target of an alias makes, for the arguments the alias got
TargetStep(fn, args) ==
    CASE fn = "title"            -> titleText(args[1])
      [] fn = "legendTitle"      -> legendTitleText(args[1])
      [] fn = "xaxisTitle"       -> xaxisTitleText(args[1])
      [] fn = "yaxisTitle"       -> yaxisTitleText(args[1])
      [] fn = "xaxisScaleLinear" -> xaxisType("linear")
      [] fn = "xaxisScaleLog"    -> xaxisType("log")
      [] fn = "xaxisTypeDate"    -> xaxisType("date")
      [] fn = "yaxisScaleLinear" -> yaxisType("linear")
      [] fn = "yaxisScaleLog"    -> yaxisType("log")
      [] fn = "yaxisTypeDate"    -> yaxisType("date")

AliasNames ==
    {"title", "legendTitle", "xaxisTitle", "yaxisTitle",
     "xaxisScaleLinear", "xaxisScaleLog", "xaxisTypeDate",
     "yaxisScaleLinear", "yaxisScaleLog", "yaxisTypeDate"}

\* C11: a call of an alias leaves the Figure in exactly the state the call of
\* its target leaves it in: title as titleText, legendTitle as
\* legendTitleText, xaxisTitle as xaxisTitleText, yaxisTitle as
\* yaxisTitleText, and the six ScaleLinear/ScaleLog/TypeDate aliases as
\* xaxisType or yaxisType of "linear", "log", "date".
C11_AliasAsTarget ==
    [][called'.fn \in AliasNames => TargetStep(called'.fn, called'.args)]_vars

C11_Witness ==
    /\ called.fn = "xaxisScaleLog"
    /\ lastOp = [op |-> "xaxisType", args |-> <<"log">>]
    /\ xaxis = SetItem(SetItem(EmptyDict, "title_text", PyStr("x")), "type", PyStr("log"))
    /\ layout = SetItem(EmptyDict, "title_text", PyStr("y"))
    /\ yaxis = EmptyDict

DrawNames == {"draw", "drawLine", "drawLineWithMarkers", "drawMarkers"}

\* the step appends exactly one trace to the backend figure
OneTraceAdded ==
    /\ Len(fig'.data) = Len(fig.data) + 1
    /\ SubSeq(fig'.data, 1, Len(fig.data)) = fig.data

\* C12: drawLine(x, y, name, line) adds exactly one trace, with the keys x,
\* y, name and line and neither mode nor marker; drawLineWithMarkers adds
\* exactly one trace with mode "lines+markers" and both line and marker;
\* drawMarkers adds exactly one trace with mode "markers" and marker and no
\* line.
C12_DrawKinds ==
    [][called'.fn \in {"drawLine", "drawLineWithMarkers", "drawMarkers"} =>
        LET a == called'.args
            t == fig'.data[Len(fig'.data)]
        IN  /\ OneTraceAdded
            /\ t["x"] = PyFloatList(a[1])
            /\ t["y"] = PyFloatList(a[2])
            /\ t["name"] = PyStr(a[3])
            /\ called'.fn = "drawLine" =>
                  /\ DOMAIN t = {"x", "y", "name", "line"}
                  /\ t["line"] = Specs_dict(a[4])
            /\ called'.fn = "drawLineWithMarkers" =>
                  /\ DOMAIN t = {"x", "y", "name", "mode", "line", "marker"}
                  /\ t["mode"] = PyStr("lines+markers")
                  /\ t["line"] = Specs_dict(a[4])
                  /\ t["marker"] = Specs_dict(a[5])
            /\ called'.fn = "drawMarkers" =>
                  /\ DOMAIN t = {"x", "y", "name", "mode", "marker"}
                  /\ t["mode"] = PyStr("markers")
                  /\ t["marker"] = Specs_dict(a[4])
    ]_vars

C12_Witness ==
    /\ called.fn = "drawMarkers"
    /\ Len(fig.data) = 2
    /\ DOMAIN fig.data[1] = {"x", "y", "name", "line"}
    /\ DOMAIN fig.data[2] = {"x", "y", "name", "mode", "marker"}
    /\ fig.data[2]["mode"] = PyStr("markers")
    /\ fig.data[2]["marker"] = Specs_dict(EmptyDict)

\* the trace a draw call stands for: the keys and values of its dictionary
TraceOf(fn, a) ==
    LET keys == {"x", "y", "name"}
                \cup (IF fn \in {"drawLineWithMarkers", "drawMarkers"} THEN {"mode"} ELSE {})
                \cup (IF fn \in {"drawLine", "drawLineWithMarkers"} THEN {"line"} ELSE {})
                \cup (IF fn \in {"drawLineWithMarkers", "drawMarkers"} THEN {"marker"} ELSE {})
    IN  [k \in keys |->
            CASE k = "x"      -> PyFloatList(a[1])
              [] k = "y"      -> PyFloatList(a[2])
              [] k = "name"   -> PyStr(a[3])
              [] k = "mode"   -> PyStr(IF fn = "drawMarkers" THEN "markers" ELSE "lines+markers")
              [] k = "line"   -> Specs_dict(a[4])
              [] k = "marker" -> Specs_dict(a[Len(a)])]

\* C13: the backend figure holds one trace per draw call made so far (draw,
\* drawLine, drawLineWithMarkers, drawMarkers), in the order of the calls:
\* it has none at first, each draw call appends its trace after the ones
\* already there, and no setter, show() or save() adds, removes or reorders
\* traces.
C13_TracesInCallOrder ==
    /\ fig.data = <<>>
    /\ [][IF called'.fn \in DrawNames
           THEN fig'.data = Append(fig.data, TraceOf(called'.fn, called'.args))
           ELSE fig'.data = fig.data]_vars

C13_Witness ==
    /\ called.fn = "save"
    /\ lastOp.op = "save"
    /\ xaxis = SetItem(EmptyDict, "title_text", PyStr("x"))
    /\ fig.data = <<TraceOf("drawLineWithMarkers", <<<<0, 1>>, <<0, 1>>, "v", EmptyDict, EmptyDict>>),
                    TraceOf("draw", <<<<0, 1>>, <<0, 1>>, "u">>)>>
    /\ fig.rendered.data = fig.data

\* the Python value a Scatter member function stores for its argument
ScatterStored(m, arg) ==
    CASE m \in {"x", "y"}        -> [t |-> "list", v |-> [i \in 1 .. Len(arg) |-> PyFloat(arg[i])]]
      [] m \in {"name", "mode"}   -> PyStr(arg)
      [] m \in {"line", "marker"} -> Specs_dict(arg)

\* dictionary `after` is `before` with key k set to v and nothing else changed
OnlyKeySet(before, after, k, v) ==
    /\ DOMAIN after = DOMAIN before \cup {k}
    /\ after[k] = v
    /\ \A j \in DOMAIN before \ {k} : after[j] = before[j]

\* C18: a default-constructed Scatter has an empty option dictionary and
\* Scatter(x, y, name) has exactly the keys x, y and name; each of x(), y(),
\* name(), mode(), line() and marker() sets only its own key to the given
\* value (last write wins), leaves every other key unchanged and returns the
\* same Scatter; a chain of two calls yields the dictionary of the two
\* separate calls.
C18_ScatterOptions ==
    [][LET fn == called'.fn
           a  == called'.args
           o  == scatter.objs[scatter.self]
           on == scatter'.objs[scatter'.self]
       IN  /\ fn = "Scatter()" => DOMAIN on = {}
           /\ fn = "Scatter(x, y, name)" =>
                 /\ DOMAIN on = {"x", "y", "name"}
                 /\ on["x"] = ScatterStored("x", a[1])
                 /\ on["y"] = ScatterStored("y", a[2])
                 /\ on["name"] = ScatterStored("name", a[3])
           /\ fn \in ScatterMethods =>
                 /\ OnlyKeySet(o, on, fn, ScatterStored(fn, a[1]))
                 /\ scatter'.returned = scatter.self
                 /\ scatter'.self = scatter.self
                 /\ Len(scatter'.objs) = Len(scatter.objs)
           /\ fn = "chain" =>
                 /\ \E mid \in {SetItem(o, a[1], ScatterStored(a[1], a[2]))} :
                       /\ OnlyKeySet(o, mid, a[1], ScatterStored(a[1], a[2]))
                       /\ OnlyKeySet(mid, on, a[3], ScatterStored(a[3], a[4]))
                 /\ scatter'.returned = scatter.self
                 /\ scatter'.self = scatter.self
                 /\ Len(scatter'.objs) = Len(scatter.objs)
    ]_vars

C18_Witness ==
    /\ called = [fn |-> "chain", args |-> <<"mode", "markers", "name", "v">>]
    /\ ops = 3
    /\ scatter.self = 1
    /\ scatter.returned = 1
    /\ DOMAIN scatter.objs[1] = {"x", "y", "name", "mode"}
    /\ scatter.objs[1]["name"] = PyStr("v")
    /\ scatter.objs[1]["mode"] = PyStr("markers")
    /\ scatter.objs[1]["x"] = PyFloatList(<<1, 0>>)

\* C19: a Figure setter changes only the one key it names in its own
\* dictionary: a layout setter leaves xaxis, yaxis, every other layout key and
\* the backend figure (traces and applied layout) unchanged; an xaxis setter
\* leaves layout and yaxis unchanged and a yaxis setter leaves layout and
\* xaxis unchanged.
C19_SetterFrame ==
    [][called'.fn \in SetterNames =>
        LET k == SetterKey[called'.fn]
        IN  /\ fig' = fig
            /\ \A dn \in {"layout", "xaxis", "yaxis"} :
                  IF dn = k.dict
                  THEN OnlyKeySet(Dict(dn), Dict(dn)', k.key, Stored(called'.fn, called'.args))
                  ELSE Dict(dn)' = Dict(dn)
    ]_vars

C19_Witness ==
    /\ called = [fn |-> "xaxisTitleText", args |-> <<"x">>]
    /\ xaxis = SetItem(SetItem(EmptyDict, "range", createRange(0, 1)), "title_text", PyStr("x"))
    /\ yaxis = SetItem(EmptyDict, "title_text", PyStr("y"))
    /\ layout = EmptyDict
    /\ Len(fig.data) = 1
    /\ fig.layout = EmptyDict

\* C20: traces reach the backend figure immediately at each draw call,
\* whereas layout and axis settings reach it only at the next show() or
\* save(): a setter changes nothing on the backend figure, whether called
\* before or after a show()/save(), and a show() or save() applies every
\* setting made so far before it renders.
C20_DeferredSettings ==
    [][/\ called'.fn = "draw" =>
            /\ fig'.data = Append(fig.data, TraceOf("draw", called'.args))
            /\ fig'.layout = fig.layout /\ fig'.xaxes = fig.xaxes /\ fig'.yaxes = fig.yaxes
       /\ called'.fn \in SetterNames =>
            /\ fig' = fig
            /\ \E dn \in {"layout", "xaxis", "yaxis"} :
                  /\ dn = SetterKey[called'.fn].dict
                  /\ SetterKey[called'.fn].key \in DOMAIN Dict(dn)'
       /\ called'.fn \in {"show", "save"} =>
            /\ InEffect(layout, fig'.layout)
            /\ InEffect(xaxis, fig'.xaxes)
            /\ InEffect(yaxis, fig'.yaxes)
            /\ fig'.rendered.by # "none"
            /\ fig'.rendered.layout = fig'.layout
            /\ fig'.rendered.xaxes = fig'.xaxes
            /\ fig'.rendered.yaxes = fig'.yaxes
            /\ fig'.rendered.data = fig'.data
    ]_vars

C20_Witness ==
    /\ called = [fn |-> "titleText", args |-> <<"y">>]
    /\ ops = 4
    /\ fig.rendered.by = "show"
    /\ fig.rendered.layout = SetItem(EmptyDict, "title_text", PyStr("x"))
    /\ fig.layout = SetItem(EmptyDict, "title_text", PyStr("x"))
    /\ layout = SetItem(EmptyDict, "title_text", PyStr("y"))
    /\ Len(fig.data) = 1
    /\ Len(fig.rendered.data) = 1

\* C21: show() and save() leave the layout, xaxis and yaxis dictionaries of
\* the Figure and its list of traces unchanged, so a figure shown or saved
\* right after a show() or save() is rendered with the same settings and
\* the same traces as the time before.
C21_RenderLeavesFigure ==
    [][called'.fn \in {"show", "save"} =>
        /\ layout' = layout
        /\ xaxis' = xaxis
        /\ yaxis' = yaxis
        /\ fig'.data = fig.data
        /\ lastOp.op \in {"show", "save"} =>
              /\ fig'.rendered.layout = fig.rendered.layout
              /\ fig'.rendered.xaxes = fig.rendered.xaxes
              /\ fig'.rendered.yaxes = fig.rendered.yaxes
              /\ fig'.rendered.data = fig.rendered.data
    ]_vars

C21_Witness ==
    /\ called.fn = "save"
    /\ ops = 4
    /\ fig.rendered.by = "write_image"
    /\ layout = SetItem(EmptyDict, "title_text", PyStr("x"))
    /\ xaxis = EmptyDict
    /\ yaxis = EmptyDict
    /\ got = <<>>
    /\ fig.data = <<TraceOf("draw", <<<<0, 1>>, <<0, 1>>, "u">>)>>
    /\ fig.rendered.data = fig.data
    /\ fig.rendered.layout = layout

----------------------------------------------------------------------------
(* The array helpers: Array.hpp                                            *)
(*                                                                         *)
(* A std::size_t value is a record [wrap, low] that stands for             *)
(* wrap * 2^64 + low, with wrap = 1 exactly when low < 0: the value the    *)
(* conversion of a negative int to the unsigned 64-bit type produces.      *)
(* Sums and products modulo 2^64 of such values are the sums and products  *)
(* of their `low` parts, normalised again.  A double is a record           *)
(* [hi, lo, den] that stands for (hi * 2^64 + lo) / den; the arithmetic on *)
(* doubles is exact, rounding is not part of the model.                    *)

\* int -> std::size_t (usual arithmetic conversions, static_cast)
SizeT(z) == [wrap |-> IF z < 0 THEN 1 ELSE 0, low |-> z]

\* std::size_t * std::size_t and std::size_t + std::size_t, modulo 2^64
SizeMul(a, b) == SizeT(a.low * b.low)

SizeAdd(a, b) == SizeT(a.low + b.low)

\* int -> double and std::size_t -> double
DInt(z) == [hi |-> 0, lo |-> z, den |-> 1]

DSize(a) == [hi |-> a.wrap, lo |-> a.low, den |-> 1]

\* double / double(n), double + double(z), double - double, double == double
DDiv(a, n) == [hi |-> a.hi, lo |-> a.lo, den |-> a.den * n]

DAddInt(a, z) == [hi |-> a.hi, lo |-> a.lo + z * a.den, den |-> a.den]

DSub(a, b) ==
    [hi  |-> a.hi * b.den - b.hi * a.den,
     lo  |-> a.lo * b.den - b.lo * a.den,
     den |-> a.den * b.den]

DEq(a, b) == a.hi * b.den = b.hi * a.den /\ a.lo * b.den = b.lo * a.den

ArgTypes == {"int", "double"}

Endpoints == (0 - MaxAbs) .. MaxAbs

\* linspace<T0, T1>(x0, x1, numintervals):
\*   result[i] = x0 + i * (x1 - x0) / static_cast<U>(numintervals)
\* with i a std::size_t: when both endpoints are int, x1 - x0 is an int and
\* i * (x1 - x0) is computed in std::size_t; when an endpoint is a double,
\* x1 - x0 is a double and so is the product.
linspace(T0, T1, x0, x1, numintervals) ==
    [k \in 1 .. (numintervals + 1) |->
        LET i    == k - 1
            prod == IF T0 = "int" /\ T1 = "int"
                    THEN DSize(SizeMul(SizeT(i), SizeT(x1 - x0)))
                    ELSE DInt(i * (x1 - x0))
        IN  DAddInt(DDiv(prod, numintervals), x0)]

\* range(int x0, int x1):
\*   incr = (x1 > x0) ? +1 : -1;  result(x1 - x0 + 1);
\*   result[i] = x0 + i * incr
\* the size x1 - x0 + 1 is converted to std::size_t, and a size of 2^64 - k
\* cannot be allocated: the constructor of the array throws; x0 + i * incr
\* is computed in std::size_t.
range(x0, x1) ==
    LET incr == IF x1 > x0 THEN 1 ELSE 0 - 1
        size == SizeT(x1 - x0 + 1)
    IN  IF size.wrap = 1
        THEN [thrown |-> TRUE, values |-> <<>>]
        ELSE [thrown |-> FALSE,
              values |-> [k \in 1 .. size.low |->
                            DSize(SizeAdd(SizeT(x0), SizeMul(SizeT(k - 1), SizeT(incr))))]]

InitArray == Init

CallLinspace(T0, T1, x0, x1, numintervals) ==
    /\ called' = [fn |-> "linspace", args |-> <<T0, T1, x0, x1, numintervals>>]
    /\ ret' = [fn |-> "linspace", value |-> linspace(T0, T1, x0, x1, numintervals)]
    /\ UNCHANGED <<py, created, ctor, fig, layout, xaxis, yaxis, lastArg, lastOp, backendCalls, got, ops, scatter>>

CallRange(x0, x1) ==
    /\ called' = [fn |-> "range", args |-> <<x0, x1>>]
    /\ ret' = [fn |-> "range", value |-> range(x0, x1)]
    /\ UNCHANGED <<py, created, ctor, fig, layout, xaxis, yaxis, lastArg, lastOp, backendCalls, got, ops, scatter>>

NextArray ==
    \/ \E T0 \in ArgTypes, T1 \in ArgTypes, x0 \in Endpoints, x1 \in Endpoints,
          numintervals \in 1 .. MaxIntervals :
            CallLinspace(T0, T1, x0, x1, numintervals)
    \/ \E x0 \in Endpoints, x1 \in Endpoints : CallRange(x0, x1)

SpecArray == InitArray /\ [][NextArray]_vars

----------------------------------------------------------------------------
(* The claims on the array helpers *)

\* C14: for every x0, x1 and numintervals >= 1, linspace returns
\* numintervals + 1 values, the first is x0, the last is x1, and consecutive
\* values differ by (x1 - x0) / numintervals.
C14_LinspaceEvenlySpaced ==
    called.fn = "linspace" =>
        LET x0 == called.args[3]
            x1 == called.args[4]
            n  == called.args[5]
            v  == ret.value
        IN  /\ Len(v) = n + 1
            /\ DEq(v[1], DInt(x0))
            /\ DEq(v[n + 1], DInt(x1))
            /\ \A i \in 1 .. n : DEq(DSub(v[i + 1], v[i]), DDiv(DInt(x1 - x0), n))

\* C15: linspace called with integer endpoints returns the same values as
\* linspace called with the numerically equal floating-point endpoints, for
\* every pair of endpoints, x1 < x0 included.
C15_LinspaceIntAsDouble ==
    (called.fn = "linspace" /\ called.args[1] = "int" /\ called.args[2] = "int") =>
        LET x0 == called.args[3]
            x1 == called.args[4]
            n  == called.args[5]
            w  == linspace("double", "double", x0, x1, n)
        IN  /\ Len(ret.value) = Len(w)
            /\ \A k \in 1 .. Len(w) : DEq(ret.value[k], w[k])

\* C16: for all integers x0 <= x1, negative x0 included, range(x0, x1)
\* returns x1 - x0 + 1 values and element i is x0 + i.
C16_RangeIncreasing ==
    (called.fn = "range" /\ called.args[1] <= called.args[2]) =>
        LET x0 == called.args[1]
            x1 == called.args[2]
            r  == ret.value
        IN  /\ ~r.thrown
            /\ Len(r.values) = x1 - x0 + 1
            /\ \A k \in 1 .. Len(r.values) : DEq(r.values[k], DInt(x0 + (k - 1)))

\* C17: for x1 < x0, range(x0, x1) returns x0 - x1 + 1 values that decrease
\* by one: element i is x0 - i.
C17_RangeDecreasing ==
    (called.fn = "range" /\ called.args[2] < called.args[1]) =>
        LET x0 == called.args[1]
            x1 == called.args[2]
            r  == ret.value
        IN  /\ ~r.thrown
            /\ Len(r.values) = x0 - x1 + 1
            /\ \A k \in 1 .. Len(r.values) : DEq(r.values[k], DInt(x0 - (k - 1)))

====
